---- MODULE Spec2Model ----
(***************************************************************************)
(* Model of hl7Parser.py: the tree-to-dictionary converter                 *)
(* hl7_message_to_dict, its entry point hl7_str_to_dict and the S3         *)
(* orchestration lambda_handler.                                           *)
(*                                                                         *)
(* Python values are tagged records [t, v]:                                *)
(*   str  : v is the string                                                *)
(*   dict : v is the sequence of items [k, v] in insertion order           *)
(*   list : v is the sequence of elements                                  *)
(* A parsed hl7apy element is a record [name, long_name, children, er7];   *)
(* er7 is what to_er7() returns for it and is only read on childless       *)
(* elements.                                                               *)
(***************************************************************************)
EXTENDS Integers, Sequences, FiniteSets, TLC

VARIABLES
    pc,             \* position in the running function
    caller,         \* what is run: "convert", "direct" (hl7_str_to_dict) or "lambda_handler"
    m,              \* the element handed to hl7_message_to_dict; er7_msg
    use_long_name,  \* the naming flag
    result,         \* the value returned by the function under "convert"/"direct"
    s,              \* the raw text handed to hl7_str_to_dict
    environ,        \* os.environ: the names that are set
    event,          \* the S3 event: its Records
    raw_bucket,     \* the objects of the raw bucket
    stg_bucket,     \* the objects of the staging bucket
    obj,            \* lambda_handler's obj: the body get_object returned
    hl7_dict,       \* lambda_handler's hl7_dict
    calls,          \* the S3 requests issued so far, in order, with their outcome
    exception       \* the exception that ended the run (NoValue if none)

vars == <<pc, caller, m, use_long_name, result, s, environ, event, raw_bucket,
          stg_bucket, obj, hl7_dict, calls, exception>>

-----------------------------------------------------------------------------
(* Bounds of the model *)

\* children of a flat root
MaxChildren == 3

\* children of a deep root
MaxSegs == 2

\* children of a nested element
MaxSubChildren == 2

\* fields of a header segment
MaxFields == 2

-----------------------------------------------------------------------------
(* Python values *)

None == "<None>"

NoValue == [t |-> "none", v |-> <<>>]

Str(x) == [t |-> "str", v |-> x]

Dict(items) == [t |-> "dict", v |-> items]

List(elems) == [t |-> "list", v |-> elems]

\* isinstance(x, list)
IsList(x) == x.t = "list"

\* bool(x) for a string or None: None and "" are falsy
Truthy(x) == x # None /\ x # ""

\* str.upper() on the names the model uses
Upper(x) ==
    CASE x = "abc" -> "ABC"
      [] x = "pid" -> "PID"
      [] x = "name" -> "NAME"
      [] x = "Name" -> "NAME"
      [] x = "message_type" -> "MESSAGE_TYPE"
      [] x = "message_control_id" -> "MESSAGE_CONTROL_ID"
      [] x = "set_id_pid" -> "SET_ID_PID"
      [] OTHER -> x

\* `name in d` for a dict given by its items
HasKey(items, name) == \E i \in 1..Len(items) : items[i].k = name

\* d[name] for a key that is present
GetItem(items, name) ==
    items[CHOOSE i \in 1..Len(items) : items[i].k = name].v

\* d[name] = val: a present key keeps its place, a new key goes last
SetItem(items, name, val) ==
    IF HasKey(items, name)
    THEN [i \in 1..Len(items) |->
            IF items[i].k = name THEN [k |-> name, v |-> val] ELSE items[i]]
    ELSE Append(items, [k |-> name, v |-> val])

-----------------------------------------------------------------------------
(* hl7_message_to_dict *)

\* ChosenName with a bug: the long name is used whenever the flag is set
ChosenNameNoFallback(c, flag) ==
    IF flag THEN Upper(c.long_name) ELSE Upper(c.name)

\* ChosenName with a bug: the short name is not upper-cased
ChosenNameNoUpper(c, flag) ==
    IF flag /\ Truthy(c.long_name) THEN Upper(c.long_name) ELSE c.name

\* lines 38-40: the key of child c
ChosenName(c, flag) ==
    LET name == Upper(c.name)
    IN  IF flag
        THEN (IF Truthy(c.long_name) THEN Upper(c.long_name) ELSE name)
        ELSE name

\* Aggregate with a bug: a repeated key's new value goes to the front of the list
AggregatePrepend(d, name, dictified) ==
    IF HasKey(d, name)
    THEN LET cur == GetItem(d, name)
             old == IF IsList(cur) THEN cur.v ELSE <<cur>>
         IN  SetItem(d, name, List(<<dictified>> \o old))
    ELSE SetItem(d, name, dictified)

\* Aggregate with a bug: the first value of a key is wrapped in a list at once
AggregateAlwaysList(d, name, dictified) ==
    IF HasKey(d, name)
    THEN SetItem(d, name, List(Append(GetItem(d, name).v, dictified)))
    ELSE SetItem(d, name, List(<<dictified>>))

\* Aggregate with a bug: a repeated key's value is overwritten
AggregateOverwrite(d, name, dictified) == SetItem(d, name, dictified)

\* Aggregate with a bug: a repeated key is removed and inserted again, last
AggregateMoveToEnd(d, name, dictified) ==
    IF HasKey(d, name)
    THEN LET cur == GetItem(d, name)
             old == IF IsList(cur) THEN cur.v ELSE <<cur>>
             rest == SelectSeq(d, LAMBDA it : it.k # name)
         IN  Append(rest, [k |-> name, v |-> List(Append(old, dictified))])
    ELSE SetItem(d, name, dictified)

\* lines 42-47: put dictified under name in d
Aggregate(d, name, dictified) ==
    IF HasKey(d, name)
    THEN LET d1 == IF ~IsList(GetItem(d, name))
                   THEN SetItem(d, name, List(<<GetItem(d, name)>>))
                   ELSE d
         IN  SetItem(d1, name, List(Append(GetItem(d1, name).v, dictified)))
    ELSE SetItem(d, name, dictified)

\* m.to_er7() of a childless element: its text
to_er7(n) == n.er7

\* ReturnLeaf with a bug: the text is wrapped in a mapping under the name
ReturnLeafWrapped(n) == Dict(<<[k |-> Upper(n.name), v |-> Str(to_er7(n))]>>)

\* line 50: what a childless element converts to
ReturnLeaf(n) == Str(to_er7(n))

RECURSIVE hl7_message_to_dict(_, _)
RECURSIVE ForChildren(_, _, _, _)

\* lines 37-47: the loop over m.children from child i on, d built so far
ForChildren(children, flag, i, d) ==
    IF i > Len(children)
    THEN d
    ELSE LET c == children[i]
             name == ChosenName(c, flag)
             dictified == hl7_message_to_dict(c, flag)
         IN  ForChildren(children, flag, i + 1, Aggregate(d, name, dictified))

\* lines 35-50
hl7_message_to_dict(n, flag) ==
    IF n.children # <<>>
    THEN Dict(ForChildren(n.children, flag, 1, <<>>))
    ELSE ReturnLeaf(n)

-----------------------------------------------------------------------------
(* The parsed elements the converter is run on *)

Node(name, long_name, children) ==
    [name |-> name, long_name |-> long_name, children |-> children, er7 |-> ""]

Leaf(name, long_name, text) ==
    [name |-> name, long_name |-> long_name, children |-> <<>>, er7 |-> text]

ShortNames == {"abc", "ABC", "pid"}

LongNames == {None, "", "name"}

LeafTexts == {"A", "B"}

SeqsUpTo(S, lo, hi) == UNION {[1..k -> S] : k \in lo..hi}

\* childless elements: the children of a flat root
Leaves == {Leaf(n, l, t) : n \in ShortNames, l \in LongNames, t \in LeafTexts}

\* childless elements below a nested element
SubLeaves == {Leaf("abc", None, "A"), Leaf("ABC", "name", "B")}

\* nested elements: a named element with 1..MaxSubChildren childless children
Mids == {Node("pid", "Name", kids) : kids \in SeqsUpTo(SubLeaves, 1, MaxSubChildren)}

\* the children of a deep root: nested elements and an element whose long
\* name is the empty string
Segs == Mids \cup {Leaf("pid", "", "A")}

\* the root's own name is never read by the converter
Root(children) == Node("root", None, children)

-----------------------------------------------------------------------------
(* Spec: hl7_message_to_dict applied to an element *)

\* lambda_handler's world, untouched while the converter alone is run
NoHandler ==
    /\ environ = {}
    /\ event = <<>>
    /\ raw_bucket = {}
    /\ stg_bucket = {}
    /\ obj = NoValue
    /\ hl7_dict = NoValue
    /\ calls = <<>>

Init ==
    /\ caller = "convert"
    /\ pc \in {"leaf", "flat", "deep"}
    /\ m = Root(<<>>)
    /\ use_long_name \in BOOLEAN
    /\ result = NoValue
    /\ s = NoValue
    /\ exception = NoValue
    /\ NoHandler

\* the element under conversion grows by one child (the tree the parser built)
AddChild ==
    /\ caller = "convert"
    /\ pc \in {"flat", "deep"}
    /\ Len(m.children) < (IF pc = "flat" THEN MaxChildren ELSE MaxSegs)
    /\ \E c \in (IF pc = "flat" THEN Leaves ELSE Segs) :
          m' = [m EXCEPT !.children = Append(@, c)]
    /\ UNCHANGED <<pc, caller, use_long_name, result, s, environ, event,
                   raw_bucket, stg_bucket, obj, hl7_dict, calls, exception>>

\* the element under conversion is a childless element
TakeLeaf ==
    /\ caller = "convert"
    /\ pc = "leaf"
    /\ m' \in Leaves
    /\ pc' = "start"
    /\ UNCHANGED <<caller, use_long_name, result, s, environ, event,
                   raw_bucket, stg_bucket, obj, hl7_dict, calls, exception>>

\* result = hl7_message_to_dict(m, use_long_name)
Convert ==
    /\ caller = "convert"
    /\ \/ pc = "start"
       \/ pc \in {"flat", "deep"} /\ m.children # <<>>
    /\ result' = hl7_message_to_dict(m, use_long_name)
    /\ pc' = "done"
    /\ UNCHANGED <<caller, m, use_long_name, s, environ, event,
                   raw_bucket, stg_bucket, obj, hl7_dict, calls, exception>>

Next == AddChild \/ TakeLeaf \/ Convert

Spec == Init /\ [][Next]_vars

-----------------------------------------------------------------------------
(* The raw texts and what hl7apy's parser makes of them *)

\* a raw text: whether its bytes decode as utf-8, whether parse_message
\* accepts it, and the message it parses to
Text(tree) == [utf8 |-> TRUE, accepted |-> TRUE, tree |-> tree]

RejectedText == [utf8 |-> TRUE, accepted |-> FALSE, tree |-> NoValue]

UndecodableBody == [utf8 |-> FALSE, accepted |-> FALSE, tree |-> NoValue]

\* a field holding one ST component with one ST subcomponent
ST(text) == Node("ST", None, <<Leaf("ST", None, text)>>)

MSH_9 == Leaf("MSH_9", "message_type", "ADT")

MSH_10 == Node("MSH_10", "message_control_id", <<ST("id1")>>)

\* a message control id field without components
MSH_10_empty == Leaf("MSH_10", "message_control_id", "")

Fields == {MSH_9, MSH_10, MSH_10_empty}

\* the header segment: every parsed message starts with one
MshSegments == {Node("MSH", None, f) : f \in SeqsUpTo(Fields, 1, MaxFields)}

PidSegment == Node("PID", None, <<Leaf("PID_1", "set_id_pid", "1")>>)

Messages ==
    {Root(<<msh>>) : msh \in MshSegments}
    \cup {Root(<<msh, PidSegment>>) : msh \in MshSegments}
    \cup {Root(<<msh, Node("MSH", None, <<MSH_9>>)>>) : msh \in MshSegments}

Texts == {RejectedText} \cup {Text(r) : r \in Messages}

Bodies == Texts \cup {UndecodableBody}

ObjectKey == "msg.hl7"

Raise(type, at) == [type |-> type, at |-> at]

-----------------------------------------------------------------------------
(* hl7_str_to_dict *)

\* ParseMessage with a bug: a rejected text is taken for a header-only message
ParseMessageSwallow ==
    /\ pc = "parse_message"
    /\ m' = IF s.accepted THEN s.tree ELSE Root(<<Node("MSH", None, <<MSH_9>>)>>)
    /\ pc' = "msg_id"
    /\ UNCHANGED <<caller, use_long_name, result, s, environ, event, raw_bucket,
                   stg_bucket, obj, hl7_dict, calls, exception>>

\* line 22: er7_msg = parser.parse_message(s, find_groups=False)
ParseMessage ==
    /\ pc = "parse_message"
    /\ IF s.accepted
       THEN /\ m' = s.tree
            /\ pc' = "msg_id"
            /\ UNCHANGED exception
       ELSE /\ exception' = Raise("ParserError", "parse_message")
            /\ pc' = "raised"
            /\ UNCHANGED m
    /\ UNCHANGED <<caller, use_long_name, result, s, environ, event, raw_bucket,
                   stg_bucket, obj, hl7_dict, calls>>

\* whether element n has a child that answers to attribute attr
HasChild(n, attr) ==
    \E i \in 1..Len(n.children) :
        \/ Upper(n.children[i].name) = attr
        \/ (Truthy(n.children[i].long_name) /\ Upper(n.children[i].long_name) = attr)

\* lines 23-24: msg_id = er7_msg.children[0].MESSAGE_CONTROL_ID.value, logged.
\* children[0] of an empty list raises IndexError.  A first child without a
\* MESSAGE_CONTROL_ID child leaves the outcome to hl7apy's attribute
\* resolution: it hands back an empty element or raises.
LogMsgId ==
    /\ pc = "msg_id"
    /\ IF m.children = <<>>
       THEN /\ exception' = Raise("IndexError", "msg_id")
            /\ pc' = "raised"
       ELSE IF HasChild(m.children[1], "MESSAGE_CONTROL_ID")
            THEN /\ pc' = "convert"
                 /\ UNCHANGED exception
            ELSE \E resolved \in BOOLEAN :
                    IF resolved
                    THEN /\ pc' = "convert"
                         /\ UNCHANGED exception
                    ELSE /\ exception' = Raise("ChildNotFound", "msg_id")
                         /\ pc' = "raised"
    /\ UNCHANGED <<caller, m, use_long_name, result, s, environ, event, raw_bucket,
                   stg_bucket, obj, hl7_dict, calls>>

\* line 25 (and line 72 in lambda_handler, which receives the value)
ReturnDict ==
    /\ pc = "convert"
    /\ result' = hl7_message_to_dict(m, use_long_name)
    /\ IF caller = "lambda_handler"
       THEN /\ hl7_dict' = hl7_message_to_dict(m, use_long_name)
            /\ pc' = "lookup"
       ELSE /\ pc' = "returned"
            /\ UNCHANGED hl7_dict
    /\ UNCHANGED <<caller, m, use_long_name, s, environ, event, raw_bucket,
                   stg_bucket, obj, calls, exception>>

hl7_str_to_dict == ParseMessage \/ LogMsgId \/ ReturnDict

-----------------------------------------------------------------------------
(* lambda_handler *)

\* line 57: stg_bucket = os.environ['STAGING_BUCKET']
GetEnviron ==
    /\ pc = "environ"
    /\ IF "STAGING_BUCKET" \in environ
       THEN /\ pc' = "event"
            /\ UNCHANGED exception
       ELSE /\ exception' = Raise("KeyError", "environ")
            /\ pc' = "raised"
    /\ UNCHANGED <<caller, m, use_long_name, result, s, environ, event, raw_bucket,
                   stg_bucket, obj, hl7_dict, calls>>

\* lines 60-61: the bucket name and object key of event['Records'][0]
ReadEvent ==
    /\ pc = "event"
    /\ IF event # <<>>
       THEN /\ pc' = "get_object"
            /\ UNCHANGED exception
       ELSE /\ exception' = Raise("IndexError", "event")
            /\ pc' = "raised"
    /\ UNCHANGED <<caller, m, use_long_name, result, s, environ, event, raw_bucket,
                   stg_bucket, obj, hl7_dict, calls>>

\* line 65: obj = s3.get_object(...); the request fails when the object is
\* not there and may fail for the service's own reasons
GetObject ==
    /\ pc = "get_object"
    /\ \E ok \in BOOLEAN :
          /\ ok => \E o \in raw_bucket : o.key = event[1].key
          /\ calls' = Append(calls, [op |-> "get_object", ok |-> ok])
          /\ IF ok
             THEN /\ obj' = (CHOOSE o \in raw_bucket : o.key = event[1].key).body
                  /\ pc' = "decode"
                  /\ UNCHANGED exception
             ELSE /\ exception' = Raise("ClientError", "get_object")
                  /\ pc' = "raised"
                  /\ UNCHANGED obj
    /\ UNCHANGED <<caller, m, use_long_name, result, s, environ, event, raw_bucket,
                   stg_bucket, hl7_dict>>

\* lines 68 and 72: hl7 = obj['Body'].read().decode('utf-8') and the call
\* hl7_str_to_dict(hl7, use_long_name=True)
DecodeAndCall ==
    /\ pc = "decode"
    /\ IF obj.utf8
       THEN /\ s' = obj
            /\ use_long_name' = TRUE
            /\ pc' = "parse_message"
            /\ UNCHANGED exception
       ELSE /\ exception' = Raise("UnicodeDecodeError", "decode")
            /\ pc' = "raised"
            /\ UNCHANGED <<s, use_long_name>>
    /\ UNCHANGED <<caller, m, result, environ, event, raw_bucket,
                   stg_bucket, obj, hl7_dict, calls>>

\* val[key] on a Python value: a dict without the key raises KeyError, a
\* list or a string indexed by a string raises TypeError
Subscript(val, key) ==
    IF val.t = "dict"
    THEN IF HasKey(val.v, key)
         THEN [ok |-> TRUE, v |-> GetItem(val.v, key), type |-> ""]
         ELSE [ok |-> FALSE, v |-> NoValue, type |-> "KeyError"]
    ELSE [ok |-> FALSE, v |-> NoValue, type |-> "TypeError"]

RECURSIVE Lookup(_, _)
\* val[path[1]][path[2]]..., stopping at the first subscript that raises
Lookup(val, path) ==
    IF path = <<>>
    THEN [ok |-> TRUE, v |-> val, type |-> ""]
    ELSE LET r == Subscript(val, Head(path))
         IN  IF r.ok THEN Lookup(r.v, Tail(path)) ELSE r

\* line 75
MsgIdPath == <<"MSH", "MESSAGE_CONTROL_ID", "ST", "ST">>

RECURSIVE JsonDumps(_)
\* line 79: json.dumps(..., sort_keys=True): a dict is written by its sorted
\* keys, so its insertion order is gone; lists keep their order
JsonDumps(val) ==
    CASE val.t = "dict" ->
            [t |-> "object",
             v |-> {<<val.v[i].k, JsonDumps(val.v[i].v)>> : i \in 1..Len(val.v)}]
      [] val.t = "list" ->
            [t |-> "array", v |-> [i \in 1..Len(val.v) |-> JsonDumps(val.v[i])]]
      [] OTHER -> val

\* lines 75-76: msg_id = hl7_dict["MSH"]["MESSAGE_CONTROL_ID"]["ST"]["ST"]
LookupMsgId ==
    /\ pc = "lookup"
    /\ IF Lookup(hl7_dict, MsgIdPath).ok
       THEN /\ pc' = "put_object"
            /\ UNCHANGED exception
       ELSE /\ exception' = Raise(Lookup(hl7_dict, MsgIdPath).type, "lookup")
            /\ pc' = "raised"
    /\ UNCHANGED <<caller, m, use_long_name, result, s, environ, event, raw_bucket,
                   stg_bucket, obj, hl7_dict, calls>>

\* the staging object: its key is made of the time and msg_id (modelled by
\* msg_id), its body is the dumped document
StagingObject ==
    [key |-> Lookup(hl7_dict, MsgIdPath).v, body |-> JsonDumps(hl7_dict)]

\* PutObject with a bug: a failed put_object is caught and ignored
PutObjectIgnoreFailure ==
    /\ pc = "put_object"
    /\ \E ok \in BOOLEAN :
          /\ calls' = Append(calls, [op |-> "put_object", ok |-> ok])
          /\ stg_bucket' = IF ok THEN stg_bucket \cup {StagingObject} ELSE stg_bucket
          /\ pc' = "delete_object"
          /\ UNCHANGED exception
    /\ UNCHANGED <<caller, m, use_long_name, result, s, environ, event, raw_bucket,
                   obj, hl7_dict>>

\* lines 78-79: s3.put_object(Bucket=stg_bucket, Key=key, Body=json.dumps(...));
\* the request may fail
PutObject ==
    /\ pc = "put_object"
    /\ \E ok \in BOOLEAN :
          /\ calls' = Append(calls, [op |-> "put_object", ok |-> ok])
          /\ IF ok
             THEN /\ stg_bucket' = stg_bucket \cup {StagingObject}
                  /\ pc' = "delete_object"
                  /\ UNCHANGED exception
             ELSE /\ exception' = Raise("ClientError", "put_object")
                  /\ pc' = "raised"
                  /\ UNCHANGED stg_bucket
    /\ UNCHANGED <<caller, m, use_long_name, result, s, environ, event, raw_bucket,
                   obj, hl7_dict>>

\* line 81: s3.delete_object(Bucket=raw_bucket, Key=object_key); may fail
DeleteObject ==
    /\ pc = "delete_object"
    /\ \E ok \in BOOLEAN :
          /\ calls' = Append(calls, [op |-> "delete_object", ok |-> ok])
          /\ IF ok
             THEN /\ raw_bucket' = {o \in raw_bucket : o.key # event[1].key}
                  /\ pc' = "completed"
                  /\ UNCHANGED exception
             ELSE /\ exception' = Raise("ClientError", "delete_object")
                  /\ pc' = "raised"
                  /\ UNCHANGED raw_bucket
    /\ UNCHANGED <<caller, m, use_long_name, result, s, environ, event,
                   stg_bucket, obj, hl7_dict>>

lambda_handler ==
    GetEnviron \/ ReadEvent \/ GetObject \/ DecodeAndCall \/ LookupMsgId
    \/ PutObject \/ DeleteObject

-----------------------------------------------------------------------------
(* SpecHandler: hl7_str_to_dict called directly with either flag, or        *)
(* lambda_handler run on an S3 event                                        *)

InitHandler ==
    /\ caller \in {"direct", "lambda_handler"}
    /\ m = NoValue
    /\ result = NoValue
    /\ exception = NoValue
    /\ stg_bucket = {}
    /\ obj = NoValue
    /\ hl7_dict = NoValue
    /\ calls = <<>>
    /\ IF caller = "direct"
       THEN /\ pc = "parse_message"
            /\ s \in Texts
            /\ use_long_name \in BOOLEAN
            /\ environ = {}
            /\ event = <<>>
            /\ raw_bucket = {}
       ELSE /\ pc = "environ"
            /\ s = NoValue
            /\ use_long_name = TRUE
            /\ environ \in {{}, {"STAGING_BUCKET"}}
            /\ event \in {<<>>, <<[bucket |-> "raw", key |-> ObjectKey]>>}
            /\ raw_bucket \in {{}} \cup {{[key |-> ObjectKey, body |-> b]} : b \in Bodies}

NextHandler == hl7_str_to_dict \/ lambda_handler

SpecHandler == InitHandler /\ [][NextHandler]_vars

-----------------------------------------------------------------------------
(* What the converter is expected to produce, stated without the loop *)

RECURSIVE AllNodes(_)
\* every element of the subtree of n, n included
AllNodes(n) ==
    {n} \cup UNION {AllNodes(n.children[i]) : i \in 1..Len(n.children)}

\* the elements of the subtree of n that have children
Branches(n) == {b \in AllNodes(n) : b.children # <<>>}

\* the name a child is filed under, before upper-casing
RawChosen(c) ==
    IF use_long_name /\ c.long_name # None /\ c.long_name # ""
    THEN c.long_name
    ELSE c.name

ExpectedKey(c) == Upper(RawChosen(c))

\* the mapping returned for element b of the tree under conversion
Out(b) == IF b = m THEN result ELSE hl7_message_to_dict(b, use_long_name)

\* the children of b filed under key K, in tree order
Group(b, K) == SelectSeq(b.children, LAMBDA c : ExpectedKey(c) = K)

\* their converted values, in the same order
GroupValues(b, K) ==
    LET g == Group(b, K)
    IN  [j \in 1..Len(g) |-> hl7_message_to_dict(g[j], use_long_name)]

KeysOf(out) == [i \in 1..Len(out.v) |-> out.v[i].k]

KeySet(out) == {out.v[i].k : i \in 1..Len(out.v)}

\* the number of converted children a value at a key stands for
Count(val) == IF IsList(val) THEN Len(val.v) ELSE 1

Done == caller = "convert" /\ pc = "done"

-----------------------------------------------------------------------------
\* C1: in the mapping returned for any branch node, a key that two or more
\* children chose holds the list of exactly those children's converted
\* values, in the order the children appear in the tree.
C1_RepeatedKeyHoldsValuesInTreeOrder ==
    Done =>
        \A b \in Branches(m) :
            LET out == Out(b)
            IN  /\ out.t = "dict"
                /\ \A i \in 1..Len(out.v) :
                     LET item == out.v[i]
                         values == GroupValues(b, item.k)
                     IN  Len(values) >= 2 =>
                            /\ item.v.t = "list"
                            /\ item.v.v = values

\* children named N, M, N with different first and third values give
\* {N: [v1, v3], M: v2}
C1_Witness ==
    /\ Done
    /\ Len(m.children) = 3
    /\ ExpectedKey(m.children[1]) = ExpectedKey(m.children[3])
    /\ ExpectedKey(m.children[1]) # ExpectedKey(m.children[2])
    /\ m.children[1].er7 # m.children[3].er7
    /\ result = Dict(<<[k |-> ExpectedKey(m.children[1]),
                        v |-> List(<<Str(m.children[1].er7), Str(m.children[3].er7)>>)],
                       [k |-> ExpectedKey(m.children[2]),
                        v |-> Str(m.children[2].er7)]>>)

\* C2: a key holds a single converted child exactly when one child produced
\* it and a list of length k exactly when k >= 2 children produced it; no
\* list of length 1 appears anywhere in the output.
RECURSIVE NoSingletonList(_)
NoSingletonList(val) ==
    CASE val.t = "list" ->
            /\ Len(val.v) # 1
            /\ \A i \in 1..Len(val.v) : NoSingletonList(val.v[i])
      [] val.t = "dict" ->
            \A i \in 1..Len(val.v) : NoSingletonList(val.v[i].v)
      [] OTHER -> TRUE

C2_SingleValueIffOneChild ==
    Done =>
        /\ NoSingletonList(result)
        /\ \A b \in Branches(m) :
             LET out == Out(b)
             IN  \A i \in 1..Len(out.v) :
                    LET item == out.v[i]
                        values == GroupValues(b, item.k)
                        k == Len(values)
                    IN  /\ k >= 1
                        /\ (~IsList(item.v)) <=> (k = 1)
                        /\ IsList(item.v) <=> (k >= 2)
                        /\ IsList(item.v) => Len(item.v.v) = k
                        /\ k = 1 => item.v = values[1]

\* a nested element with one child sits next to a repeated one
C2_Witness ==
    /\ Done
    /\ \E b \in Branches(m) :
         /\ b # m
         /\ Len(b.children) = 1
         /\ \E i \in 1..Len(result.v) :
              /\ IsList(result.v[i].v)
              /\ Len(result.v[i].v.v) = 2
              /\ result.v[i].v.v[1] = hl7_message_to_dict(b, use_long_name)
              /\ result.v[i].v.v[1].t = "dict"
              /\ ~IsList(result.v[i].v.v[1].v[1].v)

\* C3: every child is filed under its short name upper-cased, or under its
\* long name upper-cased when use_long_name is set and the child has a
\* non-empty long name; the choice is made child by child, and without
\* use_long_name no long name is a key.
UpperLongNames(b) ==
    {Upper(b.children[i].long_name) :
        i \in {j \in 1..Len(b.children) :
                 b.children[j].long_name # None /\ b.children[j].long_name # ""}}

C3_KeyIsChosenNameUpperCased ==
    Done =>
        \A b \in Branches(m) :
            LET out == Out(b)
            IN  /\ KeySet(out) = {ExpectedKey(b.children[i]) : i \in 1..Len(b.children)}
                /\ \A i \in 1..Len(b.children) :
                     LET c == b.children[i]
                         key == IF use_long_name /\ c.long_name \notin {None, ""}
                                THEN Upper(c.long_name)
                                ELSE Upper(c.name)
                     IN  /\ HasKey(out.v, key)
                         /\ LET val == GetItem(out.v, key)
                                cv == hl7_message_to_dict(c, use_long_name)
                            IN  IF IsList(val)
                                THEN \E j \in 1..Len(val.v) : val.v[j] = cv
                                ELSE val = cv
                /\ ~use_long_name => KeySet(out) \cap UpperLongNames(b) = {}

\* siblings with and without a long name, converted with use_long_name set
C3_Witness ==
    /\ Done
    /\ use_long_name
    /\ Len(m.children) = 2
    /\ m.children[1].long_name = "name"
    /\ m.children[2].long_name \in {None, ""}
    /\ m.children[1].name = m.children[2].name
    /\ KeysOf(result) = <<"NAME", Upper(m.children[2].name)>>

\* C4: two siblings share a key exactly when their chosen names are equal
\* after upper-casing.
C4_SameKeyIffUpperCasedNamesEqual ==
    Done =>
        \A b \in Branches(m) :
            LET out == Out(b)
                n == Len(b.children)
            IN  /\ \A i, j \in 1..Len(out.v) : out.v[i].k = out.v[j].k => i = j
                /\ Cardinality(KeySet(out))
                     = Cardinality({Upper(RawChosen(b.children[i])) : i \in 1..n})
                /\ \A i \in 1..Len(out.v) :
                     Count(out.v[i].v)
                       = Cardinality({j \in 1..n :
                            Upper(RawChosen(b.children[j])) = out.v[i].k})

\* abc and ABC under one key; two short names with one long name under one key
C4_Witness ==
    /\ Done
    /\ Len(m.children) = 3
    /\ \/ /\ ~use_long_name
          /\ m.children[1].name = "abc"
          /\ m.children[2].name = "ABC"
          /\ m.children[3].name = "pid"
          /\ KeysOf(result) = <<"ABC", "PID">>
          /\ Count(result.v[1].v) = 2
       \/ /\ use_long_name
          /\ m.children[1].name = "abc" /\ m.children[1].long_name = "name"
          /\ m.children[2].name = "pid" /\ m.children[2].long_name = "name"
          /\ m.children[3].name = "pid" /\ m.children[3].long_name = None
          /\ KeysOf(result) = <<"NAME", "PID">>
          /\ Count(result.v[1].v) = 2

\* C5: the childless elements of the tree and the strings of the output are
\* equally many.
RECURSIVE SumSeq(_)
SumSeq(q) == IF q = <<>> THEN 0 ELSE Head(q) + SumSeq(Tail(q))

RECURSIVE TreeLeafCount(_)
TreeLeafCount(n) ==
    IF n.children = <<>>
    THEN 1
    ELSE SumSeq([i \in 1..Len(n.children) |-> TreeLeafCount(n.children[i])])

RECURSIVE OutLeafCount(_)
OutLeafCount(val) ==
    CASE val.t = "str" -> 1
      [] val.t = "list" -> SumSeq([i \in 1..Len(val.v) |-> OutLeafCount(val.v[i])])
      [] val.t = "dict" -> SumSeq([i \in 1..Len(val.v) |-> OutLeafCount(val.v[i].v)])
      [] OTHER -> 0

C5_LeafCountPreserved ==
    Done => OutLeafCount(result) = TreeLeafCount(m)

\* nested elements colliding on one key, four leaves in and out
C5_Witness ==
    /\ Done
    /\ Len(m.children) = 2
    /\ Len(m.children[1].children) = 2
    /\ Len(m.children[2].children) = 2
    /\ Len(result.v) = 1
    /\ TreeLeafCount(m) = 4
    /\ OutLeafCount(result) = 4

\* C6: an element with children converts to a mapping, a childless element
\* to its own text, unchanged, whatever use_long_name is.
C6_LeafConvertsToItsText ==
    Done =>
        /\ (m.children # <<>>) <=> (result.t = "dict")
        /\ m.children = <<>> => result = Str(m.er7)
        /\ \A n \in AllNodes(m) :
             n.children = <<>> =>
                hl7_message_to_dict(n, use_long_name) = [t |-> "str", v |-> n.er7]

C6_Witness ==
    /\ Done
    /\ m.children = <<>>
    /\ m.long_name = "name"
    /\ use_long_name
    /\ result = Str("B")

\* C10: the keys of a returned mapping are in the order of the first child
\* that produced each of them.
RECURSIVE FirstOccurrences(_, _)
FirstOccurrences(q, seen) ==
    IF q = <<>>
    THEN <<>>
    ELSE IF Head(q) \in seen
         THEN FirstOccurrences(Tail(q), seen)
         ELSE <<Head(q)>> \o FirstOccurrences(Tail(q), seen \cup {Head(q)})

C10_KeysInFirstOccurrenceOrder ==
    Done =>
        \A b \in Branches(m) :
            KeysOf(Out(b))
              = FirstOccurrences([i \in 1..Len(b.children) |-> ExpectedKey(b.children[i])], {})

\* children named N, M, N give the key order N, M
C10_Witness ==
    /\ Done
    /\ Len(m.children) = 3
    /\ ExpectedKey(m.children[1]) = ExpectedKey(m.children[3])
    /\ ExpectedKey(m.children[1]) # ExpectedKey(m.children[2])
    /\ KeysOf(result) = <<ExpectedKey(m.children[1]), ExpectedKey(m.children[2])>>

-----------------------------------------------------------------------------
\* C7: lambda_handler issues delete_object only after put_object has
\* succeeded; when any earlier step fails no delete is issued and the source
\* object is still in the raw bucket.
DeleteIssued == \E i \in 1..Len(calls) : calls[i].op = "delete_object"

C7_DeleteOnlyAfterSuccessfulPut ==
    caller = "lambda_handler" =>
        /\ \A i \in 1..Len(calls) :
             calls[i].op = "delete_object" =>
                /\ \E j \in 1..(i - 1) : calls[j].op = "put_object" /\ calls[j].ok
                /\ stg_bucket # {}
        /\ (exception # NoValue /\ exception.at # "delete_object") =>
                /\ ~DeleteIssued
                /\ obj # NoValue => [key |-> ObjectKey, body |-> obj] \in raw_bucket

\* a run that put the document and then deleted the source
C7_Witness ==
    /\ caller = "lambda_handler"
    /\ pc = "completed"
    /\ calls = <<[op |-> "get_object", ok |-> TRUE],
                 [op |-> "put_object", ok |-> TRUE],
                 [op |-> "delete_object", ok |-> TRUE]>>
    /\ stg_bucket = {[key |-> Str("id1"), body |-> JsonDumps(hl7_dict)]}
    /\ raw_bucket = {}

\* C8: when the parser rejects the text, hl7_str_to_dict ends with the
\* parser's exception, has no parsed message, never converts and returns
\* nothing.
StrToDictEntered == pc \notin {"environ", "event", "get_object", "decode"}

C8_ParserFailurePropagates ==
    (StrToDictEntered /\ s # NoValue /\ ~s.accepted /\ pc # "parse_message") =>
        /\ pc = "raised"
        /\ exception = Raise("ParserError", "parse_message")
        /\ m = NoValue
        /\ result = NoValue
        /\ hl7_dict = NoValue
        /\ stg_bucket = {}

C8_Witness ==
    /\ s = RejectedText
    /\ pc = "raised"
    /\ exception = Raise("ParserError", "parse_message")
    /\ result = NoValue

\* C9: for every text the parser accepts, hl7_str_to_dict returns the
\* conversion of the parsed root: reading the control id for the log record
\* never prevents or changes the returned mapping.  This holds on the runs
\* where LogMsgId resolves the control id and fails on those where it raises;
\* which of the two hl7apy does for a header without that field is not
\* decided by hl7Parser.py.
C9_DiagnosticNeverPreventsResult ==
    (StrToDictEntered /\ s # NoValue /\ s.accepted
        /\ pc \notin {"parse_message", "msg_id", "convert"}) =>
        result = hl7_message_to_dict(s.tree, use_long_name)

====
